---- MODULE Spec2Model ----
(***************************************************************************)
(* A model of python/main.py: the DSQL connectivity test.  One run reads   *)
(* four environment variables, validates them, opens one psycopg2          *)
(* connection, runs one query, prints the row and exits.                   *)
(*                                                                         *)
(* A Python str is modelled as a sequence of one-character strings, so     *)
(* that the hostname pattern and the length limit are computed character   *)
(* by character.  The environment is a function whose domain is the set of *)
(* variables that are set; os.environ.get yields None outside it.  The     *)
(* strings of the server's row are only printed and are kept whole.        *)
(*                                                                         *)
(* The calls into psycopg2 return or raise: connect raises                 *)
(* OperationalError; execute, fetchone, commit and rollback raise a        *)
(* psycopg2.Error.  Progress lines are taken to be written; a write of the *)
(* info block may fail with OSError.                                       *)
(***************************************************************************)
EXTENDS Integers, Sequences, FiniteSets, TLC

(***************************************************************************)
(* Bounds of the input space.                                              *)
(***************************************************************************)
\* longest part of a hostname that is drawn character by character
MaxSuffix == 2

\* the RFC 1035 limit of validate_hostname
HostnameLimit == 253

(***************************************************************************)
(* Strings.                                                                *)
(***************************************************************************)
Str_require     == <<"r", "e", "q", "u", "i", "r", "e">>
Str_prefer      == <<"p", "r", "e", "f", "e", "r">>
Str_allow       == <<"a", "l", "l", "o", "w">>
Str_disable     == <<"d", "i", "s", "a", "b", "l", "e">>
Str_verify_full == <<"v", "e", "r", "i", "f", "y", "-", "f", "u", "l", "l">>
Str_loopback    == <<"1", "2", "7", ".", "0", ".", "0", ".", "1">>
Str_token       == <<"t", "o", "k", "e", "n", "1", "2", "3">>

\* the character class [a-zA-Z0-9.-]
HostnameClass ==
    { "a", "b", "c", "d", "e", "f", "g", "h", "i", "j", "k", "l", "m",
      "n", "o", "p", "q", "r", "s", "t", "u", "v", "w", "x", "y", "z",
      "A", "B", "C", "D", "E", "F", "G", "H", "I", "J", "K", "L", "M",
      "N", "O", "P", "Q", "R", "S", "T", "U", "V", "W", "X", "Y", "Z",
      "0", "1", "2", "3", "4", "5", "6", "7", "8", "9", ".", "-" }

\* re.match(r'^[a-zA-Z0-9.-]+$', s): one or more characters of the class from
\* the start of s, then the end of s; without re.MULTILINE "$" matches at the
\* end of the string and also just before a newline that ends the string.
HostnamePatternMatches(s) ==
    \E n \in 1..Len(s) :
        /\ \A i \in 1..n : s[i] \in HostnameClass
        /\ \/ n = Len(s)
           \/ n = Len(s) - 1 /\ s[Len(s)] = "\n"

(***************************************************************************)
(* Exceptions.  An exception is a record of its class and its message; the *)
(* message is a fixed text and the value formatted into it.                *)
(***************************************************************************)
NoExc == [kind |-> "None", text |-> "", arg |-> <<>>]

Raise(kind, text, arg) == [kind |-> kind, text |-> text, arg |-> arg]

\* the base classes of each exception class that a step of main can raise
Bases(kind) ==
    CASE kind = "ValueError"       -> {"ValueError", "Exception"}
      [] kind = "TypeError"        -> {"TypeError", "Exception"}
      [] kind = "OSError"          -> {"OSError", "Exception"}
      [] kind = "OperationalError" -> {"OperationalError", "DatabaseError", "Error", "Exception"}
      [] kind = "ProgrammingError" -> {"ProgrammingError", "DatabaseError", "Error", "Exception"}
      [] OTHER                     -> {}

\* the except clauses with the psycopg2.Error clause moved ahead of its subclass
ExceptClauses_Reordered == <<"ValueError", "Error", "OperationalError", "Exception">>

\* the except clauses of main, in source order
ExceptClauses == <<"ValueError", "OperationalError", "Error", "Exception">>

\* the clause that handles e: the first one whose class e is an instance of
Handler(e) ==
    LET hit == {i \in 1..Len(ExceptClauses) : ExceptClauses[i] \in Bases(e.kind)}
    IN  IF hit = {} THEN "uncaught"
        ELSE ExceptClauses[CHOOSE i \in hit : \A j \in hit : i <= j]

(***************************************************************************)
(* Configuration loader.                                                   *)
(***************************************************************************)
required_vars == <<"HOSTNAME", "PGHOSTADDR", "PGPASSWORD", "PGSSLMODE">>

valid_modes == {Str_require, Str_prefer, Str_allow, Str_disable}

validate_hostname(hostname) ==
    IF ~HostnamePatternMatches(hostname)
    THEN [ok |-> FALSE, exc |-> Raise("ValueError", "Invalid hostname format: ", hostname)]
    ELSE IF Len(hostname) > HostnameLimit
    THEN [ok |-> FALSE, exc |-> Raise("ValueError", "Hostname too long", <<>>)]
    ELSE [ok |-> TRUE, value |-> hostname]

\* validate_ssl_mode without its membership test
validate_ssl_mode_Lax(sslmode) == [ok |-> TRUE, value |-> sslmode]

validate_ssl_mode(sslmode) ==
    IF sslmode \notin valid_modes
    THEN [ok |-> FALSE, exc |-> Raise("ValueError", "Invalid SSL mode: ", sslmode)]
    ELSE [ok |-> TRUE, value |-> sslmode]

\* the test "if value is None" in place of "if not value"
Falsy_NoneOnly(e, var) == var \notin DOMAIN e

\* the loop over required_vars: the variables that the loop finds unset or
\* empty; the loop raises at the first of them
Falsy(e, var) == var \notin DOMAIN e \/ e[var] = <<>>

\* the loop collecting to its end and raising for the last variable it found
FirstFalsy_Last(e) ==
    LET bad == {i \in 1..Len(required_vars) : Falsy(e, required_vars[i])}
    IN  IF bad = {} THEN 0 ELSE CHOOSE i \in bad : \A j \in bad : i >= j

FirstFalsy(e) ==
    LET bad == {i \in 1..Len(required_vars) : Falsy(e, required_vars[i])}
    IN  IF bad = {} THEN 0 ELSE CHOOSE i \in bad : \A j \in bad : i <= j

get_connection_config(e) ==
    IF FirstFalsy(e) # 0
    THEN [ok |-> FALSE,
          exc |-> Raise("ValueError", "Required environment variable is not set",
                        <<required_vars[FirstFalsy(e)]>>)]
    ELSE LET h == validate_hostname(e["HOSTNAME"])
         IN  IF ~h.ok THEN h
             ELSE LET s == validate_ssl_mode(e["PGSSLMODE"])
                  IN  IF ~s.ok THEN s
                      ELSE [ok |-> TRUE,
                            connection_params |->
                                [host |-> h.value,
                                 hostaddr |-> e["PGHOSTADDR"],
                                 port |-> 5432,
                                 database |-> "postgres",
                                 user |-> "admin",
                                 password |-> e["PGPASSWORD"],
                                 sslmode |-> s.value,
                                 connect_timeout |-> 30],
                            hostname |-> h.value]

(***************************************************************************)
(* The environment of a run.                                               *)
(***************************************************************************)
\* characters a hostname is drawn from: some of the class, some outside it
HostnameAlphabet == {"a", ".", "-", " ", "\n"}

\* lengths of the run of "a" that starts a drawn hostname: none, or one that
\* brings the drawn part up to the length limit
HostnamePads == {0, HostnameLimit - 1}

Pad(n) == [i \in 1..n |-> "a"]

Suffixes == UNION {[1..n -> HostnameAlphabet] : n \in 0..MaxSuffix}

HostnameValues == {Pad(n) \o s : n \in HostnamePads, s \in Suffixes}

AddressValues == {<<>>, Str_loopback}

PasswordValues == {<<>>, Str_token}

SslModeValues == {<<>>, Str_require, Str_prefer, Str_allow, Str_disable, Str_verify_full}

RequiredSet == {required_vars[i] : i \in 1..Len(required_vars)}

\* os.environ: any subset of the four variables set, each to any of its values
Environments ==
    {[v \in S |-> full[v]] :
        S \in SUBSET RequiredSet,
        full \in [HOSTNAME : HostnameValues, PGHOSTADDR : AddressValues,
                  PGPASSWORD : PasswordValues, PGSSLMODE : SslModeValues]}

(***************************************************************************)
(* The server's answers.                                                   *)
(***************************************************************************)
NoneRow == [none |-> TRUE]

ServerVersions == {<<"PostgreSQL 15.0">>, <<"PostgreSQL 16.2">>}

\* the one row of the introspection query, as a RealDictCursor row
Rows == {[database |-> <<"postgres">>, user |-> <<"admin">>, server_version |-> v]
         : v \in ServerVersions}

(***************************************************************************)
(* State of a run.                                                         *)
(***************************************************************************)
VARIABLES
    env,                \* os.environ
    pc,                 \* position of the run in main
    out,                \* lines written to sys.stdout
    err,                \* lines written to sys.stderr
    exit_code,          \* exit status of the process, NotExited while it runs
    connection_params,  \* main's connection_params
    hostname,           \* main's hostname
    conn,               \* the psycopg2 connection: "none", "open", "closed"
    cursor,             \* the cursor: "none", "open", "closed"
    tx,                 \* the connection's transaction
    conn_info,          \* main's conn_info
    exc,                \* the exception in flight, NoExc if none
    line,               \* the next line of display_connection_info
    connects,           \* calls of psycopg2.connect
    queries,            \* calls of cursor.execute
    raised              \* the classes of the exceptions raised so far

vars == <<env, pc, out, err, exit_code, connection_params, hostname, conn, cursor,
          tx, conn_info, exc, line, connects, queries, raised>>

NotExited == -1

Unset == [unset |-> TRUE]

Line(text, arg) == [text |-> text, msg |-> "", arg |-> arg]

\* print(f"<category>: {e}", file=sys.stderr)
ErrorLine(category, e) == [text |-> category, msg |-> e.text, arg |-> e.arg]

Init ==
    /\ env \in Environments
    /\ pc = "start"
    /\ out = <<>>
    /\ err = <<>>
    /\ exit_code = NotExited
    /\ connection_params = Unset
    /\ hostname = <<>>
    /\ conn = "none"
    /\ cursor = "none"
    /\ tx = "none"
    /\ conn_info = Unset
    /\ exc = NoExc
    /\ line = 0
    /\ connects = 0
    /\ queries = 0
    /\ raised = <<>>

\* an exception leaves the step at which it is raised
Throw(e, to) ==
    /\ exc' = e
    /\ raised' = Append(raised, e.kind)
    /\ pc' = to

(***************************************************************************)
(* main, step by step.                                                     *)
(***************************************************************************)
\* the two banner lines before the try block
Banner ==
    /\ pc = "start"
    /\ out' = out \o <<Line("AWS DSQL Connectivity Test - Python Implementation", <<>>),
                       Line("==================================================", <<>>)>>
    /\ pc' = "load"
    /\ UNCHANGED <<env, err, exit_code, connection_params, hostname, conn, cursor, tx,
                   conn_info, exc, line, connects, queries, raised>>

\* connection_params, hostname = get_connection_config() and the lines around it
LoadConfig ==
    /\ pc = "load"
    /\ LET r == get_connection_config(env)
       IN  IF r.ok
           THEN /\ connection_params' = r.connection_params
                /\ hostname' = r.hostname
                /\ out' = out \o <<Line("Reading environment variables...", <<>>),
                                   Line("Connecting to DSQL cluster: ", r.hostname),
                                   Line("Via tunnel: :5432", r.connection_params.hostaddr)>>
                /\ pc' = "connect"
                /\ UNCHANGED <<exc, raised>>
           ELSE /\ out' = Append(out, Line("Reading environment variables...", <<>>))
                /\ Throw(r.exc, "except")
                /\ UNCHANGED <<connection_params, hostname>>
    /\ UNCHANGED <<env, err, exit_code, conn, cursor, tx, conn_info, line, connects, queries>>

\* with psycopg2.connect(**connection_params) as conn: the library connects
\* or raises OperationalError (refused, timeout, authentication, TLS)
Connect ==
    /\ pc = "connect"
    /\ out' = Append(out, Line("\nEstablishing connection...", <<>>))
    /\ connects' = connects + 1
    /\ \E ok \in BOOLEAN :
        IF ok
        THEN /\ conn' = "open"
             /\ pc' = "cursor"
             /\ UNCHANGED <<exc, raised>>
        ELSE /\ Throw(Raise("OperationalError", "could not connect", <<>>), "except")
             /\ UNCHANGED conn
    /\ UNCHANGED <<env, err, exit_code, connection_params, hostname, cursor, tx, conn_info,
                   line, queries>>

\* with conn.cursor(cursor_factory=RealDictCursor) as cursor: and the two lines
\* printed before the query
OpenCursor ==
    /\ pc = "cursor"
    /\ cursor' = "open"
    /\ out' = out \o <<Line("Connection established successfully!", <<>>),
                       Line("Executing connection info query...", <<>>)>>
    /\ pc' = "execute"
    /\ UNCHANGED <<env, err, exit_code, connection_params, hostname, conn, tx, conn_info,
                   exc, line, connects, queries, raised>>

\* the classes of psycopg2.Error that a call on an open connection raises
DatabaseErrors == {"OperationalError", "ProgrammingError"}

\* cursor.execute(query): the first statement opens a transaction
Execute ==
    /\ pc = "execute"
    /\ queries' = queries + 1
    /\ tx' = "open"
    /\ \/ /\ pc' = "fetch"
          /\ UNCHANGED <<exc, raised>>
       \/ \E k \in DatabaseErrors : Throw(Raise(k, "execute failed", <<>>), "cursor_exit")
    /\ UNCHANGED <<env, out, err, exit_code, connection_params, hostname, conn, cursor,
                   conn_info, line, connects>>

\* return cursor.fetchone(): a row, None when there is no row, or an error
Fetch ==
    /\ pc = "fetch"
    /\ \/ /\ conn_info' \in Rows \cup {NoneRow}
          /\ line' = 1
          /\ pc' = "display"
          /\ UNCHANGED <<exc, raised>>
       \/ /\ \E k \in DatabaseErrors : Throw(Raise(k, "fetch failed", <<>>), "cursor_exit")
          /\ UNCHANGED <<conn_info, line>>
    /\ UNCHANGED <<env, out, err, exit_code, connection_params, hostname, conn, cursor, tx,
                   connects, queries>>

\* the lines of display_connection_info that subscript conn_info
UsesRow == {3, 4, 8}

DisplayLines == 8

\* line k of display_connection_info
DisplayText(k, info, host) ==
    CASE k = 1 -> Line("\nConnection Information:", <<>>)
      [] k = 2 -> Line("------------------------------", <<>>)
      [] k = 3 -> Line("Database: ", info.database)
      [] k = 4 -> Line("User: ", info.user)
      [] k = 5 -> Line("Host: 127.0.0.1 (via tunnel to )", host)
      [] k = 6 -> Line("Port: 5432", <<>>)
      [] k = 7 -> Line("SSL Status: SSL connection (required by DSQL)", <<>>)
      [] k = 8 -> Line("Server Version: ", info.server_version)

\* one print of display_connection_info: subscripting None raises TypeError
\* before anything is written; the write itself may fail with OSError
DisplayLine ==
    /\ pc = "display"
    /\ IF line \in UsesRow /\ conn_info = NoneRow
       THEN /\ Throw(Raise("TypeError", "'NoneType' object is not subscriptable", <<>>),
                     "cursor_exit")
            /\ UNCHANGED <<out, line>>
       ELSE \/ /\ out' = Append(out, DisplayText(line, conn_info, hostname))
               /\ line' = line + 1
               /\ pc' = IF line = DisplayLines THEN "cursor_exit" ELSE "display"
               /\ UNCHANGED <<exc, raised>>
            \/ /\ Throw(Raise("OSError", "write failed", <<>>), "cursor_exit")
               /\ UNCHANGED <<out, line>>
    /\ UNCHANGED <<env, err, exit_code, connection_params, hostname, conn, cursor, tx,
                   conn_info, connects, queries>>

\* the end of the cursor's with block, normal or not: cursor.close()
CursorExit ==
    /\ pc = "cursor_exit"
    /\ cursor' = "closed"
    /\ pc' = "conn_exit"
    /\ UNCHANGED <<env, out, err, exit_code, connection_params, hostname, conn, tx,
                   conn_info, exc, line, connects, queries, raised>>

\* the end of the connection's with block.  psycopg2's connection.__exit__
\* commits when the block ended normally and rolls back when it raised; it
\* does not close the connection, and main never calls conn.close().  The
\* commit or rollback may itself raise OperationalError.
ConnExit ==
    /\ pc = "conn_exit"
    /\ \/ /\ tx' = IF exc = NoExc THEN "committed" ELSE "rolledback"
          /\ pc' = IF exc = NoExc THEN "finish" ELSE "except"
          /\ UNCHANGED <<exc, raised>>
       \/ /\ Throw(Raise("OperationalError", "connection lost", <<>>), "except")
          /\ UNCHANGED tx
    /\ UNCHANGED <<env, out, err, exit_code, connection_params, hostname, conn, cursor,
                   conn_info, line, connects, queries>>

\* the two lines after the with blocks; main returns and the process exits 0
Finish ==
    /\ pc = "finish"
    /\ out' = out \o <<Line("\nConnection closed successfully!", <<>>),
                       Line("DSQL connectivity test completed.", <<>>)>>
    /\ exit_code' = 0
    /\ pc' = "done"
    /\ UNCHANGED <<env, err, connection_params, hostname, conn, cursor, tx, conn_info, exc,
                   line, connects, queries, raised>>

\* an except clause that prints and falls out of main without sys.exit(1)
Exit1_FallsThrough(lines) ==
    /\ err' = err \o lines
    /\ exit_code' = 0
    /\ pc' = "done"
    /\ UNCHANGED <<env, out, connection_params, hostname, conn, cursor, tx, conn_info, exc,
                   line, connects, queries, raised>>

\* what every except clause ends with: sys.exit(1)
Exit1(lines) ==
    /\ err' = err \o lines
    /\ exit_code' = 1
    /\ pc' = "done"
    /\ UNCHANGED <<env, out, connection_params, hostname, conn, cursor, tx, conn_info, exc,
                   line, connects, queries, raised>>

\* except ValueError as e:
HandleValueError ==
    /\ pc = "except"
    /\ Handler(exc) = "ValueError"
    /\ Exit1(<<ErrorLine("Configuration Error: ", exc),
               Line("\nRequired environment variables:", <<>>),
               Line("- HOSTNAME: DSQL cluster private DNS endpoint", <<>>),
               Line("- PGHOSTADDR: Tunnel localhost address (127.0.0.1)", <<>>),
               Line("- PGPASSWORD: Generated auth token", <<>>),
               Line("- PGSSLMODE: SSL mode (require)", <<>>)>>)

\* except psycopg2.OperationalError as e:
HandleOperationalError ==
    /\ pc = "except"
    /\ Handler(exc) = "OperationalError"
    /\ Exit1(<<ErrorLine("Connection Error: ", exc),
               Line("\nTroubleshooting tips:", <<>>),
               Line("- Ensure SSH or SSM tunnel is active", <<>>),
               Line("- Verify tunnel is forwarding to 127.0.0.1:5432", <<>>),
               Line("- Check that auth token is valid and not expired", <<>>)>>)

\* except psycopg2.Error as e:
HandleDatabaseError ==
    /\ pc = "except"
    /\ Handler(exc) = "Error"
    /\ Exit1(<<ErrorLine("Database Error: ", exc)>>)

\* except Exception as e:
HandleException ==
    /\ pc = "except"
    /\ Handler(exc) = "Exception"
    /\ Exit1(<<ErrorLine("Unexpected Error: ", exc)>>)

Next ==
    \/ Banner
    \/ LoadConfig
    \/ Connect
    \/ OpenCursor
    \/ Execute
    \/ Fetch
    \/ DisplayLine
    \/ CursorExit
    \/ ConnExit
    \/ Finish
    \/ HandleValueError
    \/ HandleOperationalError
    \/ HandleDatabaseError
    \/ HandleException

Spec == Init /\ [][Next]_vars

(***************************************************************************)
(* Vocabulary of the properties.                                           *)
(***************************************************************************)
Done == pc = "done"

\* the variable is absent from the environment or set to the empty string
AbsentOrEmpty(v) == v \notin DOMAIN env \/ Len(env[v]) = 0

AllPresent == \A v \in RequiredSet : ~AbsentOrEmpty(v)

\* the four SSL modes the configuration loader is specified to accept
SpecSslModes == {Str_require, Str_prefer, Str_allow, Str_disable}

\* a hostname as specified: 1..253 characters, all of [a-zA-Z0-9.-]
SpecValidHostname(s) ==
    /\ Len(s) >= 1
    /\ Len(s) <= 253
    /\ \A i \in 1..Len(s) : s[i] \in HostnameClass

CategoryTexts ==
    {"Configuration Error: ", "Connection Error: ", "Database Error: ", "Unexpected Error: "}

\* the categorized error messages on the error stream
ErrorMessages == {i \in 1..Len(err) : err[i].text \in CategoryTexts}

\* the run reported the category, as the first line of the error stream
Reported(category) == Len(err) >= 1 /\ err[1].text = category

MissingConfiguration ==
    Reported("Configuration Error: ") /\ err[1].msg = "Required environment variable is not set"

InvalidHostname ==
    /\ Reported("Configuration Error: ")
    /\ err[1].msg \in {"Invalid hostname format: ", "Hostname too long"}

InvalidSslMode == Reported("Configuration Error: ") /\ err[1].msg = "Invalid SSL mode: "

\* the variables the error message names
NamedInError == {v \in RequiredSet : \E i \in 1..Len(err[1].arg) : err[1].arg[i] = v}

\* the lines of the info block that were printed
BlockLines ==
    {i \in 1..Len(out) :
        \E k \in 1..DisplayLines :
            out[i].text = DisplayText(k, CHOOSE r \in Rows : TRUE, <<>>).text}

\* the whole info block was printed, with the row's values and the hostname
FullBlock ==
    /\ conn_info \in Rows
    /\ \A k \in 1..DisplayLines :
        \E i \in 1..Len(out) : out[i] = DisplayText(k, conn_info, hostname)

\* no write to stdout failed and no commit or rollback failed
NoOutputOrReleaseFault ==
    /\ \A i \in 1..Len(raised) : raised[i] # "OSError"
    /\ exc.text # "connection lost"

ConnectionHints ==
    <<Line("- Ensure SSH or SSM tunnel is active", <<>>),
      Line("- Verify tunnel is forwarding to 127.0.0.1:5432", <<>>),
      Line("- Check that auth token is valid and not expired", <<>>)>>

(***************************************************************************)
(* Configuration loader.                                                   *)
(***************************************************************************)
\* C1 as stated: whenever one of the four variables is absent or empty, whatever
\* the other three are, no connection is ever attempted and the run ends in
\* MissingConfiguration with a message that names that variable.
C1_NamesEachMissing ==
    \A v \in RequiredSet :
        AbsentOrEmpty(v) =>
            /\ connects = 0
            /\ Done => MissingConfiguration /\ v \in NamedInError

\* C1 (amended): whenever one of the four variables is absent or empty, no
\* connection is ever attempted and the run ends in MissingConfiguration; the
\* message names that variable when every variable before it in the order
\* HOSTNAME, PGHOSTADDR, PGPASSWORD, PGSSLMODE is present and non-empty.
C1_MissingVariable ==
    \A i \in 1..Len(required_vars) :
        AbsentOrEmpty(required_vars[i]) =>
            /\ connects = 0
            /\ Done =>
                /\ MissingConfiguration
                /\ (\A j \in 1..(i - 1) : ~AbsentOrEmpty(required_vars[j]))
                        => NamedInError = {required_vars[i]}

\* a finished run with only PGPASSWORD empty, reported under its name
C1_Witness ==
    /\ Done
    /\ AbsentOrEmpty("PGPASSWORD")
    /\ \A v \in RequiredSet \ {"PGPASSWORD"} : ~AbsentOrEmpty(v)
    /\ "PGPASSWORD" \in DOMAIN env
    /\ MissingConfiguration
    /\ NamedInError = {"PGPASSWORD"}

\* C2 as stated: when more than one variable is absent or empty, the
\* MissingConfiguration message names every one of them.
C2_NamesAllMissing ==
    LET missing == {v \in RequiredSet : AbsentOrEmpty(v)}
    IN  Done /\ Cardinality(missing) > 1 =>
            MissingConfiguration /\ missing \subseteq NamedInError

\* C2 (amended): when more than one variable is absent or empty, the
\* MissingConfiguration message names exactly one of them, the first in the
\* order HOSTNAME, PGHOSTADDR, PGPASSWORD, PGSSLMODE.
C2_NamesFirstMissing ==
    LET missing == {i \in 1..Len(required_vars) : AbsentOrEmpty(required_vars[i])}
    IN  Done /\ Cardinality(missing) > 1 =>
            /\ MissingConfiguration
            /\ \E i \in missing :
                /\ \A j \in missing : i <= j
                /\ NamedInError = {required_vars[i]}

\* a finished run with PGHOSTADDR and PGSSLMODE missing, reported as PGHOSTADDR
C2_Witness ==
    /\ Done
    /\ {v \in RequiredSet : AbsentOrEmpty(v)} = {"PGHOSTADDR", "PGSSLMODE"}
    /\ MissingConfiguration
    /\ NamedInError = {"PGHOSTADDR"}

\* C3: with all four variables present (and an SSL mode of the four), a
\* hostname that is not 1..253 characters of [a-zA-Z0-9.-] is rejected with
\* InvalidHostname before any connection attempt, and one that is is accepted.
C3_HostnameValidation ==
    AllPresent /\ env["PGSSLMODE"] \in SpecSslModes =>
        IF SpecValidHostname(env["HOSTNAME"])
        THEN Done => ~InvalidHostname
        ELSE connects = 0 /\ (Done => InvalidHostname)

\* C4: with all four variables present and a valid hostname, an SSL mode
\* outside {require, prefer, allow, disable} ends the run in InvalidSslMode
\* reported with that value and no connection is ever attempted; a mode of the
\* four is accepted and reaches the connection parameters unchanged.
C4_SslModeValidation ==
    AllPresent /\ SpecValidHostname(env["HOSTNAME"]) =>
        IF env["PGSSLMODE"] \notin SpecSslModes
        THEN /\ connects = 0
             /\ Done => InvalidSslMode /\ err[1].arg = env["PGSSLMODE"]
        ELSE /\ pc \notin {"start", "load"} =>
                    /\ connection_params # Unset
                    /\ connection_params.sslmode = env["PGSSLMODE"]
             /\ Done => ~Reported("Configuration Error: ")

\* a finished run rejected for the mode verify-full
C4_Witness ==
    /\ Done
    /\ AllPresent
    /\ SpecValidHostname(env["HOSTNAME"])
    /\ env["PGSSLMODE"] = Str_verify_full
    /\ InvalidSslMode
    /\ err[1].arg = Str_verify_full
    /\ connects = 0

(***************************************************************************)
(* Query runner, reporter and release.                                     *)
(***************************************************************************)
\* C5: a run whose query returned no row (and in which no write and no commit
\* or rollback failed) ends in QueryFailure, the "Database Error" category,
\* with nothing of the info block printed.
C5_ZeroRowsIsQueryFailure ==
    Done /\ conn_info = NoneRow /\ NoOutputOrReleaseFault =>
        Reported("Database Error: ") /\ BlockLines = {}

\* C6: a run that opened the connection ends with the connection closed and
\* the cursor closed.
C6_ReleasedAtExit ==
    Done /\ connects > 0 /\ conn # "none" => conn = "closed" /\ cursor = "closed"

\* C7: a finished run (in which no write and no commit or rollback failed)
\* printed either the full info block and no error message, or one categorized
\* error message and no line of the info block.
C7_AllOrNothing ==
    Done /\ NoOutputOrReleaseFault =>
        \/ FullBlock /\ ErrorMessages = {}
        \/ BlockLines = {} /\ Cardinality(ErrorMessages) = 1

\* C8: no query is executed while the connection is not open, and a run whose
\* connection attempt failed ends with the "Connection Error" message, the three
\* remediation hints and exit code 1.
C8_ConnectionFailure ==
    /\ conn = "none" => queries = 0
    /\ Done /\ connects > 0 /\ conn = "none" =>
        /\ Reported("Connection Error: ")
        /\ Len(err) = 5
        /\ SubSeq(err, 3, 5) = ConnectionHints
        /\ exit_code = 1

\* a finished run whose one connection attempt failed
C8_Witness ==
    /\ Done
    /\ connects = 1
    /\ conn = "none"
    /\ raised = <<"OperationalError">>
    /\ exit_code = 1

\* what C9 says of a state: the process has an exit code exactly when the run
\* is over; the code is 1 if a step raised and 0 otherwise; code 0 comes with
\* the full info block; code 1 comes with exactly one categorized message.
ExitCodeAgrees ==
    /\ Done <=> exit_code # NotExited
    /\ Done => exit_code = (IF raised # <<>> THEN 1 ELSE 0)
    /\ exit_code = 0 => FullBlock /\ err = <<>>
    /\ exit_code = 1 => ErrorMessages = {1}

\* an upper bound on the steps a run has left
StepsLeft ==
    CASE pc = "start"       -> 20
      [] pc = "load"        -> 19
      [] pc = "connect"     -> 18
      [] pc = "cursor"      -> 17
      [] pc = "execute"     -> 16
      [] pc = "fetch"       -> 15
      [] pc = "display"     -> 14 - line
      [] pc = "cursor_exit" -> 4
      [] pc = "conn_exit"   -> 3
      [] pc = "finish"      -> 2
      [] pc = "except"      -> 1
      [] pc = "done"        -> 0

\* C9: every run terminates (a run that is not over can take a step, and every
\* step brings the end nearer), and in every state the exit code agrees with
\* the run: 1 if a step failed, 0 otherwise, 0 only after the full info block,
\* and exactly one categorized error message on every failing run.
C9_TerminatesWithExitCode ==
    /\ [](Done \/ ENABLED Next)
    /\ [](StepsLeft >= 0)
    /\ [][StepsLeft' < StepsLeft]_vars
    /\ []ExitCodeAgrees

\* a run that printed the full block and then failed at the commit
C9_Witness ==
    /\ Done
    /\ exit_code = 1
    /\ FullBlock
    /\ raised = <<"OperationalError">>
    /\ Reported("Connection Error: ")

\* C10: a run in which cursor.execute or cursor.fetchone raised a database
\* error ends in QueryFailure, the "Database Error" category.
C10_QueryErrorIsQueryFailure ==
    Done /\ exc.text \in {"execute failed", "fetch failed"} =>
        Reported("Database Error: ")

====
